---- MODULE Spec2Model ----
(***************************************************************************)
(* A state-machine model of the solar-position module                       *)
(* src/energy_bal_Init.py.                                                  *)
(*                                                                          *)
(* One call of one function of the module is one behaviour: Init chooses    *)
(* the function (op) and its arguments (args), the actions are the steps    *)
(* of that function, and the behaviour ends with pc = "done" and either a   *)
(* returned value (ret) or a raised exception (raised).                     *)
(*                                                                          *)
(* Numbers.  The source computes in IEEE doubles; the model computes in     *)
(* fixed point on integer grids, so rounding of the last bit of a double    *)
(* is not represented.  NaN is represented: it is the value NaN below,      *)
(* every arithmetic operator propagates it and every comparison with it is  *)
(* false, as in numpy.                                                      *)
(*   - angles of the ephemeris solver: 1 unit = 1/DegUnit degree            *)
(*   - trigonometric values: 1 unit = 1/TrigScale                           *)
(*   - instants: 1 tick stands for pandas' int64 nanosecond; a tick is one  *)
(*     minute, and the tick word has TickBits bits instead of 64            *)
(*   - float hours: 1 unit = 1/SubTick tick, hour angles of the             *)
(*     converters: 1 unit = 1/(4*SubTick) degree (15 degrees per hour)      *)
(***************************************************************************)
EXTENDS Integers, Sequences, FiniteSets, TLC

\* Largest number of timestamps in one call (length of a DatetimeIndex).
MaxBatch == 2

----------------------------------------------------------------------------
\* Floating-point values

DegUnit == 10^5
TrigScale == 10^6

NaN == -(2^30)

IsNaN(x) == x = NaN

Abs(x) == IF x < 0 THEN -x ELSE x

Sign(x) == IF x > 0 THEN 1 ELSE IF x < 0 THEN -1 ELSE 0

FAdd(a, b) == IF IsNaN(a) \/ IsNaN(b) THEN NaN ELSE a + b

FSub(a, b) == IF IsNaN(a) \/ IsNaN(b) THEN NaN ELSE a - b

FAbs(a) == IF IsNaN(a) THEN NaN ELSE Abs(a)

\* a > b, a <= b on floats: every comparison with NaN is False
FGt(a, b) == ~IsNaN(a) /\ ~IsNaN(b) /\ a > b

FLe(a, b) == ~IsNaN(a) /\ ~IsNaN(b) /\ a <= b

\* truncating division (C and numpy round the quotient of doubles to the
\* nearest value; on the integer grid the quotient is cut towards zero)
TDiv(a, b) == Sign(a) * Sign(b) * (Abs(a) \div Abs(b))

\* a * b / c without leaving 32 bits, for 0 <= (a % c) * b < 2^31
MulDiv(a, b, c) ==
    Sign(a) * Sign(b) * ((Abs(a) \div c) * Abs(b) + ((Abs(a) % c) * Abs(b)) \div c)

\* np.max over an array: NaN when any element is NaN
RECURSIVE SeqMax(_)
SeqMax(s) ==
    IF Len(s) = 1 THEN s[1]
    ELSE LET m == SeqMax(Tail(s))
         IN IF s[1] > m THEN s[1] ELSE m

NpMax(s) == IF \E i \in 1..Len(s) : IsNaN(s[i]) THEN NaN ELSE SeqMax(s)

----------------------------------------------------------------------------
\* Trigonometry (numpy): a table of sin at whole degrees, linear between them

SinTab ==
  << 0, 17452, 34899, 52336, 69756, 87156, 104528, 121869, 139173, 156434,
     173648, 190809, 207912, 224951, 241922, 258819, 275637, 292372, 309017, 325568,
     342020, 358368, 374607, 390731, 406737, 422618, 438371, 453990, 469472, 484810,
     500000, 515038, 529919, 544639, 559193, 573576, 587785, 601815, 615661, 629320,
     642788, 656059, 669131, 681998, 694658, 707107, 719340, 731354, 743145, 754710,
     766044, 777146, 788011, 798636, 809017, 819152, 829038, 838671, 848048, 857167,
     866025, 874620, 882948, 891007, 898794, 906308, 913545, 920505, 927184, 933580,
     939693, 945519, 951057, 956305, 961262, 965926, 970296, 974370, 978148, 981627,
     984808, 987688, 990268, 992546, 994522, 996195, 997564, 998630, 999391, 999848,
     1000000 >>

\* sin of u units of 1/DegUnit degree, 0 <= u <= 90 degrees
SinQ1(u) ==
    LET d == u \div DegUnit
        f == u % DegUnit
    IN  IF d >= 90 THEN SinTab[91]
        ELSE SinTab[d + 1] + ((SinTab[d + 2] - SinTab[d + 1]) * f) \div DegUnit

\* np.sin(np.radians(x)), x in units of 1/DegUnit degree
SinDeg(x) ==
    IF IsNaN(x) THEN NaN
    ELSE LET r == x % (360 * DegUnit)
         IN  IF r <= 90 * DegUnit THEN SinQ1(r)
             ELSE IF r <= 180 * DegUnit THEN SinQ1(180 * DegUnit - r)
             ELSE IF r <= 270 * DegUnit THEN -SinQ1(r - 180 * DegUnit)
             ELSE -SinQ1(360 * DegUnit - r)

\* np.cos(np.radians(x))
CosDeg(x) == IF IsNaN(x) THEN NaN ELSE SinDeg(90 * DegUnit - x)

\* a * s for a trigonometric value s (scaled by TrigScale), |a| < 2 * 10^6
MulTrig(a, s) ==
    IF IsNaN(a) \/ IsNaN(s) THEN NaN
    ELSE Sign(a) * Sign(s) *
         ((Abs(a) * (Abs(s) \div 1000)) \div 1000 + (Abs(a) * (Abs(s) % 1000)) \div TrigScale)

\* np.degrees(e) for e scaled by EccScale, in units of 1/DegUnit degree
EccScale == 10^6

Degrees(e) == IF IsNaN(e) THEN NaN ELSE (e * 57296) \div 10000

----------------------------------------------------------------------------
\* State

VARIABLES
    op,         \* the function being called
    args,       \* its arguments
    pc,         \* position in the call: "call", "loop", "sky", "reload",
                \* "imported", "done"
    E,          \* ephemeris: E of the eccentric-anomaly loop
    EccenAnom,  \* ephemeris: EccenAnom of the eccentric-anomaly loop
    passes,     \* ephemeris: executions of the loop body so far
    ext,        \* what the external collaborators returned during the call;
                \* for the SPA functions the process around it (SpaWorld)
    ret,        \* the returned value ("none" until the call returns)
    raised,     \* the exception the call ended with ("none" when it has none)
    called      \* the backends get_solarposition has called so far

vars == <<op, args, pc, E, EccenAnom, passes, ext, ret, raised, called>>

None == "none"

----------------------------------------------------------------------------
\* ephemeris: orbital elements of a timestamp (lines 621-659)

\* Eccen = 0.01675104 - 4.18e-05 * T1 - 1.26e-07 * T1 ** 2, scaled by EccScale
Eccen(T1) ==
    IF IsNaN(T1) THEN NaN
    ELSE 16751 - (418 * T1) \div 10 - (126 * T1 * T1) \div 1000

\* the tolerance 0.0001 degree of the loop condition
Tol == DegUnit \div 10000

\* abs(EccenAnom - E), elementwise
AnomChange(EA, Ev) == [i \in 1..Len(EA) |-> FAbs(FSub(EA[i], Ev[i]))]

\* while np.max(abs(EccenAnom - E)) > 0.0001
LoopCond(EA, Ev) == FGt(NpMax(AnomChange(EA, Ev)), Tol)

\* the substitution step that adds the correction to E instead of MeanAnom
KeplerStep_FromE(M, e, Ev) == FAdd(Ev, MulTrig(Degrees(e), SinDeg(Ev)))

\* EccenAnom = MeanAnom + np.degrees(Eccen) * np.sin(np.radians(E))
KeplerStep(M, e, Ev) == FAdd(M, MulTrig(Degrees(e), SinDeg(Ev)))

----------------------------------------------------------------------------
\* ephemeris: position in the sky and refraction (lines 667-709)

\* What lines 667-688 compute for one timestamp from EccenAnom, the latitude
\* and the longitude: the local apparent sidereal time in [0, 360), the right
\* ascension and the azimuth as arctan2 gives them, in (-180, 180], and the
\* elevation in [-90, 90].
Sky(LocAST, RtAscen, AzRaw, SunEl) ==
    [LocAST |-> LocAST, RtAscen |-> RtAscen, AzRaw |-> AzRaw, SunEl |-> SunEl]

NaN_Sky == Sky(NaN, NaN, NaN, NaN)

\* A timestamp of ephemeris (at the latitude and longitude of the call) is
\* given by what the function derives from it: its Julian centuries since
\* 1900 (T1, whole centuries here), its mean anomaly in [0, 360), and its
\* position in the sky.  NaT gives NaN for all of them.
EphemTime(T1, MeanAnom, sky) == [T1 |-> T1, MeanAnom |-> MeanAnom, sky |-> sky]

EphemNaT == EphemTime(NaN, NaN, NaN_Sky)

EphemTimes ==
    { EphemNaT,
      EphemTime(0, 0,                 Sky(0, -180 * DegUnit, -90 * DegUnit, 86 * DegUnit)),
      EphemTime(1, 45 * DegUnit,      Sky(360 * DegUnit - 1, -180 * DegUnit, 180 * DegUnit, 45 * DegUnit)),
      EphemTime(0, 200 * DegUnit,     Sky(10 * DegUnit, 180 * DegUnit, 0, 5 * DegUnit)),
      EphemTime(1, 360 * DegUnit - 1, Sky(200 * DegUnit, 10 * DegUnit, -1, 3 * DegUnit)),
      EphemTime(1, 0,                 Sky(0, 180 * DegUnit, 90 * DegUnit, -57500)),
      EphemTime(0, 45 * DegUnit,      Sky(100 * DegUnit, 100 * DegUnit, 45 * DegUnit, -80000)),
      EphemTime(1, 200 * DegUnit,     Sky(90 * DegUnit, -91 * DegUnit, 10 * DegUnit, -1 * DegUnit)),
      EphemTime(0, 360 * DegUnit - 1, Sky(300 * DegUnit, 0, -179 * DegUnit, -10 * DegUnit)),
      EphemTime(0, 135 * DegUnit,     Sky(180 * DegUnit, -10 * DegUnit, 170 * DegUnit, 85 * DegUnit)) }

\* the hour angle without the reduction of line 679
HrAngleOf_Unreduced(LocAST, RtAscen) == FSub(LocAST, RtAscen)

\* HrAngle = LocAST - RtAscen; HrAngle = HrAngle - (360 * (abs(HrAngle) > 180))
HrAngleOf(LocAST, RtAscen) ==
    LET h == FSub(LocAST, RtAscen)
    IN  IF FGt(FAbs(h), 180 * DegUnit) THEN h - 360 * DegUnit ELSE h

\* SunAz[SunAz < 0] += 360
SunAzOf(az) == IF FGt(0, az) THEN az + 360 * DegUnit ELSE az

\* SolarTime = (180 + HrAngle) / 15.
SolarTimeOf(h) == IF IsNaN(h) THEN NaN ELSE TDiv(180 * DegUnit + h, 15)

\* 1 / TanEl, scaled by 1000
CotEl(el) == TDiv(CosDeg(el) * 1000, SinDeg(el))

\* 58.1/TanEl - 0.07/(TanEl**3) + 8.6e-05/(TanEl**5), in 1/1000 arc second
RefractHigh(el) ==
    LET c  == CotEl(el)
        c2 == (c * c) \div 1000
        c3 == MulDiv(c2, c, 1000)
        c5 == MulDiv(c3, c2, 1000)
    IN  (581 * c) \div 10 - (7 * c3) \div 100 + MulDiv(c5, 86, 1000000)

\* Elevation*(-518.2 + Elevation*(103.4 + Elevation*(-12.79 + Elevation*0.711)))
\* + 1735, in 1/1000 arc second
RefractLow(el) ==
    LET x  == TDiv(el, DegUnit \div 1000)
        t1 == -12790 + TDiv(x * 711, 1000)
        t2 == 103400 + TDiv(x * t1, 1000)
        t3 == -518200 + TDiv(x * t2, 1000)
    IN  TDiv(x * t3, 1000) + 1735000

\* -20.774 / TanEl, in 1/1000 arc second
RefractHorizon(el) == TDiv(-20774 * CotEl(el), 1000)

\* the masked assignments with the mask of line 697 open above: Elevation > 5
RefractArcsec_NoUpperLimit(el) ==
    IF FGt(el, -1 * DegUnit) /\ FLe(el, -57500) THEN RefractHorizon(el)
    ELSE IF FGt(el, -57500) /\ FLe(el, 5 * DegUnit) THEN RefractLow(el)
    ELSE IF FGt(el, 5 * DegUnit) THEN RefractHigh(el)
    ELSE 0

\* Refract = pd.Series(0, ...) and the three masked assignments of lines
\* 697-705, in 1/1000 arc second; a NaN elevation is in no mask
RefractArcsec(el) ==
    IF FGt(el, -1 * DegUnit) /\ FLe(el, -57500) THEN RefractHorizon(el)
    ELSE IF FGt(el, -57500) /\ FLe(el, 5 * DegUnit) THEN RefractLow(el)
    ELSE IF FGt(el, 5 * DegUnit) /\ FLe(el, 85 * DegUnit) THEN RefractHigh(el)
    ELSE 0

\* the scaling of Refract without the factor pressure/101325.
RefractScaled_NoPressure(r, pressure, temperature) ==
    TDiv(TDiv(r * 283, 273 + temperature), 36)

\* Refract *= (283/(273. + temperature)) * (pressure/101325.) / 3600.
\* in units of 1/DegUnit degree
RefractScaled(r, pressure, temperature) ==
    LET r1 == TDiv(r * 283, 273 + temperature)
        pr == (pressure * 10000) \div 101325
        r2 == MulDiv(r1, pr, 10000)
    IN  TDiv(r2, 36)

\* ApparentSunEl = SunEl + Refract
ApparentSunElOf(el, pressure, temperature) ==
    FAdd(el, RefractScaled(RefractArcsec(el), pressure, temperature))

\* one row of DFOut (lines 712-718)
EphemerisRow(sky, pressure, temperature) ==
    LET SunEl         == sky.SunEl
        ApparentSunEl == ApparentSunElOf(SunEl, pressure, temperature)
        HrAngle       == HrAngleOf(sky.LocAST, sky.RtAscen)
    IN  [ apparent_elevation |-> ApparentSunEl,
          elevation          |-> SunEl,
          azimuth            |-> SunAzOf(sky.AzRaw),
          apparent_zenith    |-> FSub(90 * DegUnit, ApparentSunEl),
          zenith             |-> FSub(90 * DegUnit, SunEl),
          solar_time         |-> SolarTimeOf(HrAngle) ]

----------------------------------------------------------------------------
\* Arguments

\* the non-empty arrays of at most MaxBatch elements of S
Batches(S) == UNION {[1..n -> S] : n \in 1..MaxBatch}

PressureSamples == {0, 101325}

\* degrees Celsius; at -273 the divisor 273. + temperature of line 707 is zero
TemperatureSamples == {12, -273}

EphemerisArgs ==
    [time : Batches(EphemTimes), pressure : PressureSamples, temperature : TemperatureSamples]

\* The loop of lines 660-665 takes MeanAnom and Eccen as arrays; called on
\* its own it is given them directly (Eccen scaled by EccScale, below 0.02).
MeanAnomSamples ==
    {0, 5 * DegUnit, 45 * DegUnit, 90 * DegUnit, 135 * DegUnit, 200 * DegUnit,
     270 * DegUnit, 360 * DegUnit - 1}

EccenSamples == {0, 16751, 19999}

KeplerArgs ==
    UNION {[MeanAnom : [1..n -> MeanAnomSamples], Eccen : [1..n -> EccenSamples]] : n \in 1..MaxBatch}

\* MeanAnom and Eccen as the loop reads them (lines 657-659)
MeanAnomArr ==
    IF op = "ephemeris" THEN [i \in 1..Len(args.time) |-> args.time[i].MeanAnom]
    ELSE args.MeanAnom

EccenArr ==
    IF op = "ephemeris" THEN [i \in 1..Len(args.time) |-> Eccen(args.time[i].T1)]
    ELSE args.Eccen

----------------------------------------------------------------------------
\* ephemeris (lines 611-721)

\* lines 611-661: EccenAnom = MeanAnom; E = 0
Ephemeris_Start ==
    /\ op \in {"ephemeris", "kepler"}
    /\ pc = "call"
    /\ EccenAnom' = MeanAnomArr
    /\ E' = [i \in 1..Len(MeanAnomArr) |-> 0]
    /\ pc' = "loop"
    /\ UNCHANGED <<called, op, args, passes, ext, ret, raised>>

\* lines 663-665: one execution of the loop body
Ephemeris_LoopBody ==
    /\ op \in {"ephemeris", "kepler"}
    /\ pc = "loop"
    /\ LoopCond(EccenAnom, E)
    /\ E' = EccenAnom
    /\ EccenAnom' = [i \in 1..Len(EccenAnom) |->
                        KeplerStep(MeanAnomArr[i], EccenArr[i], EccenAnom[i])]
    /\ passes' = passes + 1
    /\ UNCHANGED <<called, op, args, pc, ext, ret, raised>>

\* line 663: the loop condition is false; the loop alone returns EccenAnom
Ephemeris_LoopExit ==
    /\ op \in {"ephemeris", "kepler"}
    /\ pc = "loop"
    /\ ~LoopCond(EccenAnom, E)
    /\ IF op = "kepler"
       THEN pc' = "done" /\ ret' = EccenAnom
       ELSE pc' = "sky" /\ ret' = ret
    /\ UNCHANGED <<called, op, args, E, EccenAnom, passes, ext, raised>>

\* lines 667-721: the rows of DFOut; 283/(273. + temperature) of line 707,
\* a division of floats, raises ZeroDivisionError when the divisor is zero
Ephemeris_Return ==
    /\ op = "ephemeris"
    /\ pc = "sky"
    /\ IF 273 + args.temperature = 0
       THEN /\ raised' = "ZeroDivisionError"
            /\ ret' = ret
       ELSE /\ raised' = raised
            /\ ret' = [i \in 1..Len(EccenAnom) |->
                          EphemerisRow(args.time[i].sky, args.pressure, args.temperature)]
    /\ pc' = "done"
    /\ UNCHANGED <<called, op, args, E, EccenAnom, passes, ext>>

----------------------------------------------------------------------------
\* Instants, timezones and pandas' DatetimeIndex

\* nanoseconds per hour (ticks per hour)
NS_PER_HR == 60

\* ticks per day
DayTicks == 24 * NS_PER_HR

\* resolution of a float below one tick
SubTick == 2^2

\* float hours: units in one hour
HourUnits == NS_PER_HR * SubTick

\* hour angles of the converters: units in one degree (15 degrees per hour)
HaPerDeg == HourUnits \div 15

\* the int64 word of a timestamp, and NaT (the smallest int64)
TickBits == 28

TickMod == 2^TickBits

TickMin == -(2^(TickBits - 1))

NaT == TickMin

\* int64 arithmetic wraps
Wrap(x) == ((x - TickMin) % TickMod) + TickMin

\* The timezones of the model: none (a naive index), fixed offsets, and one
\* zone with daylight saving time that moves its clock forward by an hour at
\* 02:00 local standard time of the second day of the epoch.
Naive == "naive"

FixedZones == {"UTC", "Etc/GMT-14", "Etc/GMT+10"}

DstZone == "US/Eastern"

AwareZones == FixedZones \cup {DstZone}

Zones == {Naive} \cup AwareZones

StdOffset == -5 * NS_PER_HR

DstOffset == -4 * NS_PER_HR

\* the UTC instant and the local wall times of the transition
GapStartWall == DayTicks + 2 * NS_PER_HR

GapEndWall == DayTicks + 3 * NS_PER_HR

DstStartUtc == GapStartWall - StdOffset

\* utcoffset of zone z at UTC instant u
UtcOffset(z, u) ==
    CASE z = Naive -> 0
      [] z = "UTC" -> 0
      [] z = "Etc/GMT-14" -> 14 * NS_PER_HR
      [] z = "Etc/GMT+10" -> -10 * NS_PER_HR
      [] z = DstZone -> IF u < DstStartUtc THEN StdOffset ELSE DstOffset

\* times.view(np.int64) is the UTC tick count u; times.tz_localize(None)
\* holds the local wall clock (of a naive index, the index itself)
WallOf(z, u) == IF u = NaT THEN NaT ELSE Wrap(u + UtcOffset(z, u))

\* a wall time the zone's clock never shows
NonExistent(z, w) == z = DstZone /\ w >= GapStartWall /\ w < GapEndWall

\* tz_localize(z) of a wall time that exists: its UTC tick count
LocalizeWall(z, w) ==
    IF w = NaT THEN NaT
    ELSE IF z = DstZone
         THEN IF w < GapStartWall THEN Wrap(w - StdOffset) ELSE Wrap(w - DstOffset)
         ELSE Wrap(w - UtcOffset(z, 0))

\* normalize() of wall ticks: midnight of the same day
FloorDay(w) == IF w = NaT THEN NaT ELSE w - (w % DayTicks)

\* times.normalize().view(np.int64): the UTC ticks of the local midnight
NormalizeUtc(z, u) == LocalizeWall(z, FloorDay(WallOf(z, u)))

\* 1 / NS_PER_HR * ticks, as float hours
HoursOfTicks(n) == n * SubTick

----------------------------------------------------------------------------
\* Time/angle converters (lines 1111-1150)

\* hour_angle, one element (lines 1111-1118)
hour_angle(z, u, longitude, equation_of_time) ==
    LET naive_time    == WallOf(z, u)
        hrs_minus_tzs == HoursOfTicks(
                             Wrap(Wrap(Wrap(2 * u) - NormalizeUtc(z, u)) - naive_time))
    IN  (15 * HaPerDeg * (hrs_minus_tzs - 12 * HourUnits)) \div HourUnits
            + longitude + (equation_of_time * HaPerDeg) \div 4

\* _hour_angle_to_hours, one element (lines 1122-1128)
hour_angle_to_hours(z, u, hourangle, longitude, equation_of_time) ==
    LET naive_time == WallOf(z, u)
        tzs        == HoursOfTicks(Wrap(naive_time - u))
    IN  IF IsNaN(hourangle) THEN NaN
        ELSE TDiv((hourangle - longitude - (equation_of_time * HaPerDeg) \div 4) * HourUnits,
                  15 * HaPerDeg)
             + 12 * HourUnits + tzs

\* _times_to_hours_after_local_midnight, one element (lines 1145-1150)
times_to_hours_after_local_midnight(z, u) ==
    LET t == WallOf(z, u)
    IN  HoursOfTicks(Wrap(t - FloorDay(t)))

\* the cast of the hours with the hours first wrapped into the day
HoursToTicks_IntoDay(hours, nanCast) ==
    IF IsNaN(hours) THEN nanCast ELSE TDiv(hours, SubTick) % DayTicks

\* (hours * NS_PER_HR).astype(np.int64): the fraction is cut off; the cast of
\* NaN is undefined in C, nanCast is what the build makes of it
HoursToTicks(hours, nanCast) ==
    IF IsNaN(hours) THEN nanCast ELSE TDiv(hours, SubTick)

\* what a build can make of the cast of NaN to int64: the smallest int64
\* (x86-64) or 0 (AArch64)
NanCasts == {TickMin, 0}

\* _local_times_from_hours_since_midnight, one element before the index is
\* built (lines 1136-1141): the wall ticks of the result
local_wall_from_hours(z, u, hours, nanCast) ==
    Wrap(FloorDay(WallOf(z, u)) + HoursToTicks(hours, nanCast))

\* pd.DatetimeIndex(<wall ticks>, tz=tz_info) (lines 1139-1142): a naive
\* index keeps the ticks, an aware one localizes them and raises on a wall
\* time the zone does not have
IndexRaises(z, walls) == \E i \in 1..Len(walls) : NonExistent(z, walls[i])

local_times_from_hours_since_midnight(z, us, hours, nanCast) ==
    LET walls == [i \in 1..Len(us) |-> local_wall_from_hours(z, us[i], hours[i], nanCast)]
    IN  IF IndexRaises(z, walls)
        THEN [raised |-> "NonExistentTimeError", ret |-> None]
        ELSE [raised |-> None,
              ret |-> [tz |-> z, ticks |-> [i \in 1..Len(us) |-> LocalizeWall(z, walls[i])]]]

----------------------------------------------------------------------------
\* Arguments of the converters

\* UTC tick counts of the timestamps of an index: midnight of the epoch, and
\* instants before and after the clock change of DstZone on its day, and on
\* the day after
TimeSamples ==
    { 0,
      DayTicks + 6 * NS_PER_HR,
      DayTicks + 8 * NS_PER_HR + 7,
      DayTicks + 20 * NS_PER_HR,
      2 * DayTicks + 15 * NS_PER_HR }

\* a DatetimeIndex: one timezone (or none) and the UTC ticks of its entries
IndexSamples == [tz : Zones, ticks : Batches(TimeSamples)]

\* longitudes in degrees and equations of time in minutes
LongitudeSamples == {-75 * HaPerDeg, 0, 120 * HaPerDeg + 1}

EotSamples == {0, -14}

\* hour angles in degrees
HourAngleSamples == {NaN, 0, 90 * HaPerDeg, -90 * HaPerDeg + 1}

\* float hours since midnight
HoursSamples == {NaN, 0, 2 * HourUnits + 1, -1 * HourUnits, 25 * HourUnits}

HourAngleArgs ==
    [times : IndexSamples, longitude : LongitudeSamples, equation_of_time : EotSamples]

HourAngleToHoursArgs ==
    [times : IndexSamples, hourangle : HourAngleSamples,
     longitude : LongitudeSamples, equation_of_time : EotSamples]

LocalTimesArgs ==
    UNION { [times : [tz : Zones, ticks : [1..n -> TimeSamples]],
             hours : [1..n -> HoursSamples]] : n \in 1..MaxBatch }

----------------------------------------------------------------------------
\* The converters as calls

\* hour_angle (lines 1111-1118)
HourAngle_Call ==
    /\ op = "hour_angle"
    /\ pc = "call"
    /\ ret' = [i \in 1..Len(args.times.ticks) |->
                  hour_angle(args.times.tz, args.times.ticks[i],
                             args.longitude, args.equation_of_time)]
    /\ pc' = "done"
    /\ UNCHANGED <<called, op, args, E, EccenAnom, passes, ext, raised>>

\* _hour_angle_to_hours (lines 1122-1128)
HourAngleToHours_Call ==
    /\ op = "_hour_angle_to_hours"
    /\ pc = "call"
    /\ ret' = [i \in 1..Len(args.times.ticks) |->
                  hour_angle_to_hours(args.times.tz, args.times.ticks[i], args.hourangle,
                                      args.longitude, args.equation_of_time)]
    /\ pc' = "done"
    /\ UNCHANGED <<called, op, args, E, EccenAnom, passes, ext, raised>>

\* _local_times_from_hours_since_midnight (lines 1131-1142)
LocalTimes_Call ==
    /\ op = "_local_times_from_hours_since_midnight"
    /\ pc = "call"
    /\ \E nanCast \in NanCasts :
          LET r == local_times_from_hours_since_midnight(
                       args.times.tz, args.times.ticks, args.hours, nanCast)
          IN  /\ ret' = r.ret
              /\ raised' = r.raised
              /\ ext' = IF \E i \in 1..Len(args.hours) : IsNaN(args.hours[i])
                        THEN nanCast ELSE ext
    /\ pc' = "done"
    /\ UNCHANGED <<called, op, args, E, EccenAnom, passes>>

----------------------------------------------------------------------------
\* sun_rise_set_transit_geometric (lines 1180-1194)

\* np.tan of an angle below 90 degrees, scaled by TrigScale
TanDeg(x) == TDiv(SinDeg(x) * 1000, CosDeg(x) \div 1000)

\* cos at the whole degrees 0..180
CosWhole == [d \in 0..180 |-> CosDeg(d * DegUnit)]

\* np.degrees(np.arccos(c)) to the nearest whole degree, in units of
\* 1/DegUnit degree: NaN outside [-1, 1], 0 at 1 and 180 degrees at -1
ArcCosDeg(c) ==
    IF IsNaN(c) \/ c > TrigScale \/ c < -TrigScale THEN NaN
    ELSE LET lo == Cardinality({d \in 0..180 : CosWhole[d] >= c}) - 1
         IN  IF lo < 180 /\ CosWhole[lo] - c > c - CosWhole[lo + 1]
             THEN (lo + 1) * DegUnit
             ELSE lo * DegUnit

\* -np.tan(declination) * np.tan(latitude_rad), scaled by TrigScale
SunsetCos(declination, latitude) == -MulTrig(TanDeg(declination), TanDeg(latitude))

\* sunset_angle: np.degrees(np.arccos(...)), in hour-angle units
SunsetAngle(declination, latitude) ==
    LET a == ArcCosDeg(SunsetCos(declination, latitude))
    IN  IF IsNaN(a) THEN NaN ELSE TDiv(a * HaPerDeg, DegUnit)

FNeg(a) == IF IsNaN(a) THEN NaN ELSE -a

\* the three results of lines 1186-1193, each a call of
\* _local_times_from_hours_since_midnight
sun_rise_set_transit_geometric(z, us, latitude, longitude, declination, eot, nanCast) ==
    LET sunset_angle  == SunsetAngle(declination, latitude)
        sunrise_angle == FNeg(sunset_angle)
        hrs(angle)    == [i \in 1..Len(us) |->
                             hour_angle_to_hours(z, us[i], angle, longitude, eot)]
        sunrise == local_times_from_hours_since_midnight(z, us, hrs(sunrise_angle), nanCast)
        sunset  == local_times_from_hours_since_midnight(z, us, hrs(sunset_angle), nanCast)
        transit == local_times_from_hours_since_midnight(z, us, hrs(0), nanCast)
    IN  IF sunrise.raised # None THEN sunrise
        ELSE IF sunset.raised # None THEN sunset
        ELSE IF transit.raised # None THEN transit
        ELSE [raised |-> None,
              ret |-> [sunrise |-> sunrise.ret, sunset |-> sunset.ret, transit |-> transit.ret]]

\* declinations (radians in the source) and latitudes, on the degree grid
DeclinationSamples == {-2345000, 0, 2345000}

LatitudeSamples == {0, 40 * DegUnit, 65 * DegUnit, 75 * DegUnit}

GeometricArgs ==
    [times : IndexSamples, latitude : LatitudeSamples, longitude : LongitudeSamples,
     declination : DeclinationSamples, equation_of_time : EotSamples]

Geometric_Call ==
    /\ op = "sun_rise_set_transit_geometric"
    /\ pc = "call"
    /\ \E nanCast \in NanCasts :
          LET r == sun_rise_set_transit_geometric(
                       args.times.tz, args.times.ticks, args.latitude, args.longitude,
                       args.declination, args.equation_of_time, nanCast)
          IN  /\ ret' = r.ret
              /\ raised' = r.raised
              /\ ext' = IF IsNaN(SunsetAngle(args.declination, args.latitude))
                        THEN nanCast ELSE ext
    /\ pc' = "done"
    /\ UNCHANGED <<called, op, args, E, EccenAnom, passes>>

----------------------------------------------------------------------------
\* solar_azimuth_analytical (lines 1028-1052)

\* np.isclose(a, b, rtol=0.0, atol=1e-8) for values scaled by TrigScale
IsClose(a, b) == ~IsNaN(a) /\ ~IsNaN(b) /\ Abs(a - b) * (10^8 \div TrigScale) <= 1

\* numer / denom, scaled by TrigScale, for denom # 0.  A quotient of 2 or
\* more in magnitude is returned as 2: np.arccos is NaN for all of them.
TrigQuot(numer, denom) ==
    LET n  == Abs(numer)
        d  == Abs(denom)
        q  == n \div d
        r1 == (n % d) * 1000
        r2 == (r1 % d) * 1000
    IN  IF q >= 2 THEN Sign(numer) * Sign(denom) * 2 * TrigScale
        ELSE Sign(numer) * Sign(denom) *
             (q * TrigScale + (r1 \div d) * 1000 + r2 \div d)

\* numer and denom (lines 1028-1029)
AziNumer(latitude, declination, zenith) ==
    MulTrig(CosDeg(zenith), SinDeg(latitude)) - SinDeg(declination)

AziDenom(latitude, zenith) == MulTrig(SinDeg(zenith), CosDeg(latitude))

\* cos_azi after the three np.where of lines 1038-1046
CosAzi(latitude, declination, zenith) ==
    LET numer == AziNumer(latitude, declination, zenith)
        denom == AziDenom(latitude, zenith)
        c0 == IF IsClose(denom, 0) THEN TrigScale ELSE TrigQuot(numer, denom)
        c1 == IF IsClose(c0, TrigScale) THEN TrigScale ELSE c0
    IN  IF IsClose(c1, -TrigScale) THEN -TrigScale ELSE c1

\* np.pi, in units of 1/DegUnit degree
Pi == 180 * DegUnit

\* the azimuth without the shift by np.pi
solar_azimuth_analytical_NoShift(latitude, hourangle, declination, zenith) ==
    LET a == ArcCosDeg(CosAzi(latitude, declination, zenith))
    IN  IF IsNaN(a) THEN NaN ELSE Sign(hourangle) * a

\* sign_ha * np.arccos(cos_azi) + np.pi
solar_azimuth_analytical(latitude, hourangle, declination, zenith) ==
    LET a == ArcCosDeg(CosAzi(latitude, declination, zenith))
    IN  IF IsNaN(a) THEN NaN ELSE Sign(hourangle) * a + Pi

\* angles (radians in the source) on the degree grid
AzimuthArgs ==
    [latitude : {0, 40 * DegUnit, 90 * DegUnit, -35 * DegUnit},
     hourangle : {-30 * DegUnit, 0, 1, 45 * DegUnit},
     declination : {-2345000, 0, 20 * DegUnit},
     zenith : {0, 20 * DegUnit, 30 * DegUnit, 60 * DegUnit, 90 * DegUnit}]

Azimuth_Call ==
    /\ op = "solar_azimuth_analytical"
    /\ pc = "call"
    /\ ret' = solar_azimuth_analytical(args.latitude, args.hourangle,
                                       args.declination, args.zenith)
    /\ pc' = "done"
    /\ UNCHANGED <<called, op, args, E, EccenAnom, passes, ext, raised>>

----------------------------------------------------------------------------
\* calc_time (lines 776-790)

\* pvlib.tools.datetime_to_djd and djd_to_datetime: Dublin Julian days count
\* from 1899-12-31 12:00 UTC, 25567.5 days before the epoch of the ticks
DjdEpoch == -(25567 * DayTicks + DayTicks \div 2)

datetime_to_djd(t) == t - DjdEpoch

djd_to_datetime(d) == d + DjdEpoch

\* The attribute of the PyEphem sun over time, as the external evaluator
\* gives it: a curve in the tick count, value = slope * (t - zero) or, for
\* the shape "bowl", (t - zero)^2 - 4.  A name that is no attribute of the
\* sun has no curve.
SunAttributes == {"alt", "az"}

CurveSamples ==
    [shape : {"line"}, slope : {-1, 1}, zero : {2, 4, 9}]
        \cup [shape : {"bowl"}, slope : {1}, zero : {2, 4, 9}]

\* getattr(sun, attr) after sun.compute(obs) at obs.date = thetime (a DJD)
SunAttr(curve, thetime) ==
    LET t == djd_to_datetime(thetime)
    IN  IF curve.shape = "line" THEN curve.slope * (t - curve.zero)
        ELSE (t - curve.zero) * (t - curve.zero) - 4

\* compute_attr (lines 779-782)
compute_attr(curve, thetime, target) == SunAttr(curve, thetime) - target

\* scipy.optimize.brentq(f, a, b, xtol=xtol) once f(a) and f(b) differ in
\* sign, by the bisection step of Brent's method: the bracket is halved
\* until it is no wider than xtol or an end is a root
RECURSIVE Bisect(_, _, _, _, _)
Bisect(curve, target, a, b, xtol) ==
    LET m  == (a + b) \div 2
        fa == compute_attr(curve, a, target)
        fm == compute_attr(curve, m, target)
    IN  IF fm = 0 THEN m
        ELSE IF b - a <= xtol THEN b
        ELSE IF Sign(fm) = Sign(fa) THEN Bisect(curve, target, m, b, xtol)
        ELSE Bisect(curve, target, a, m, xtol)

\* brentq without the check of the signs at the ends of the bracket
brentq_NoSignCheck(curve, target, a, b, xtol) ==
    [raised |-> None, root |-> Bisect(curve, target, a, b, xtol)]

\* scipy.optimize.brentq: ValueError when f(a) * f(b) > 0, an end that is a
\* root is returned as it is
brentq(curve, target, a, b, xtol) ==
    LET fa == compute_attr(curve, a, target)
        fb == compute_attr(curve, b, target)
    IN  IF fa * fb > 0 THEN [raised |-> "ValueError", root |-> None]
        ELSE IF fa = 0 THEN [raised |-> None, root |-> a]
        ELSE IF fb = 0 THEN [raised |-> None, root |-> b]
        ELSE [raised |-> None, root |-> Bisect(curve, target, a, b, xtol)]

\* calc_time (lines 776-790)
calc_time(lower_bound, upper_bound, attribute, value, curve, xtol) ==
    LET lb == datetime_to_djd(lower_bound)
        ub == datetime_to_djd(upper_bound)
        r  == brentq(curve, value, lb, ub, xtol)
    IN  IF attribute \notin SunAttributes
        THEN [raised |-> "AttributeError", ret |-> None]
        ELSE IF r.raised # None THEN [raised |-> r.raised, ret |-> None]
        ELSE [raised |-> None, ret |-> djd_to_datetime(r.root)]

\* the largest tick of a bound of calc_time
MaxBound == 8

CalcTimeArgs ==
    { a \in [lower_bound : 0..MaxBound, upper_bound : 0..MaxBound,
             attribute : SunAttributes \cup {"colour"}, value : {0, 3}, xtol : {1}] :
        a.lower_bound < a.upper_bound }

\* the call; the curve is what the external evaluator answers during it
CalcTime_Call ==
    /\ op = "calc_time"
    /\ pc = "call"
    /\ \E curve \in CurveSamples :
          LET r == calc_time(args.lower_bound, args.upper_bound, args.attribute,
                             args.value, curve, args.xtol)
          IN  /\ ret' = r.ret
              /\ raised' = r.raised
              /\ ext' = curve
    /\ pc' = "done"
    /\ UNCHANGED <<called, op, args, E, EccenAnom, passes>>

----------------------------------------------------------------------------
\* pyephem (lines 538-579) and spa_c (lines 157-198)

\* np.rad2deg of an angle in 1/1000 radian, in units of 1/DegUnit degree
Rad2Deg(x) == IF IsNaN(x) THEN NaN ELSE TDiv(x * 57296, 10)

\* What the PyEphem sun answers for one timestamp, in 1/1000 radian: alt and
\* az with the observer's pressure, and with obs.pressure = 0
PyephemSamples ==
    { [alt_p |-> 10,   az_p |-> 1571, alt |-> 0,    az |-> 1571],
      [alt_p |-> 786,  az_p |-> 3142, alt |-> 785,  az |-> 3142],
      [alt_p |-> -500, az_p |-> 0,    alt |-> -500, az |-> 0],
      [alt_p |-> 1571, az_p |-> 4000, alt |-> 1571, az |-> 4000] }

\* one row of sun_coords (lines 561-577)
PyephemRow(b) ==
    LET apparent_elevation == Rad2Deg(b.alt_p)
        elevation          == Rad2Deg(b.alt)
    IN  [ apparent_elevation |-> apparent_elevation,
          apparent_azimuth   |-> Rad2Deg(b.az_p),
          elevation          |-> elevation,
          azimuth            |-> Rad2Deg(b.az),
          apparent_zenith    |-> FSub(90 * DegUnit, apparent_elevation),
          zenith             |-> FSub(90 * DegUnit, elevation) ]

\* pyephem: the number of timestamps is all the model keeps of time
PyephemArgs == [n : 1..MaxBatch]

Pyephem_Call ==
    /\ op = "pyephem"
    /\ pc = "call"
    /\ \E b \in [1..args.n -> PyephemSamples] :
          /\ ext' = b
          /\ ret' = [i \in 1..args.n |-> PyephemRow(b[i])]
    /\ pc' = "done"
    /\ UNCHANGED <<called, op, args, E, EccenAnom, passes, raised>>

\* What spa_calc answers for one timestamp, in units of 1/DegUnit degree:
\* the fields zenith, e, e0 and azimuth of its record, each the backend's own
SpaCalcSamples ==
    [zenith : {30 * DegUnit, 95 * DegUnit}, e : {60 * DegUnit, -5 * DegUnit},
     e0 : {5998000, -520000}, azimuth : {180 * DegUnit}]

\* the row of dfout with zenith taken from e, the refracted elevation
SpaCRow_ZenithFromE(b) ==
    [ azimuth            |-> b.azimuth,
      apparent_zenith    |-> b.zenith,
      apparent_elevation |-> b.e,
      elevation          |-> b.e0,
      zenith             |-> FSub(90 * DegUnit, b.e) ]

\* one row of dfout (lines 192-196)
SpaCRow(b) ==
    [ azimuth            |-> b.azimuth,
      apparent_zenith    |-> b.zenith,
      apparent_elevation |-> b.e,
      elevation          |-> b.e0,
      zenith             |-> FSub(90 * DegUnit, b.e0) ]

\* one row of the raw output (line 190)
SpaCRawRow(b) == b

SpaCArgs == [n : 1..MaxBatch, raw_spa_output : BOOLEAN]

SpaC_Call ==
    /\ op = "spa_c"
    /\ pc = "call"
    /\ \E b \in [1..args.n -> SpaCalcSamples] :
          /\ ext' = b
          /\ ret' = [i \in 1..args.n |->
                        IF args.raw_spa_output THEN SpaCRawRow(b[i]) ELSE SpaCRow(b[i])]
    /\ pc' = "done"
    /\ UNCHANGED <<called, op, args, E, EccenAnom, passes, raised>>

----------------------------------------------------------------------------
\* The SPA functions in Python (lines 202-379 and 852-868)

\* the functions that import the spa module and call it
SpaCallers == {"spa_python", "sun_rise_set_transit_spa", "nrel_earthsun_distance"}

SpaOps == SpaCallers \cup {"_spa_python_import"}

\* os.environ['PVLIB_USE_NUMBA']: absent, or its value
Absent == "absent"

EnvValues == {Absent, "0", "1"}

HowSamples == {"numpy", "numba", "cython"}

\* delta_t: None is the empty sequence, a number the sequence holding it
DeltaTNone == <<>>

DeltaTSamples == {DeltaTNone, <<0>>, <<67>>}

\* what spa.calculate_deltat answers for the years and months of the index
CalculatedDeltaT == <<69>>

\* the most calls of _spa_python_import in a row
MaxCalls == 2

\* how, delta_t and the timezone of the index, and the process as the call
\* finds it: the environment variable and spa.USE_NUMBA
SpaArgs ==
    [how : HowSamples, delta_t : DeltaTSamples, tz : {Naive, "UTC"},
     env : EnvValues, USE_NUMBA : BOOLEAN]

ImportArgs ==
    [how : HowSamples, env : EnvValues, USE_NUMBA : BOOLEAN]

\* The process around a call: env is os.environ['PVLIB_USE_NUMBA'] now and
\* before the call at hand, USE_NUMBA is spa.USE_NUMBA, calls counts the
\* calls of _spa_python_import, lookups those of spa.calculate_deltat, and
\* backend is the delta_t each call of the backend was handed.
SpaWorld(a) ==
    [env |-> a.env, before |-> a.env, USE_NUMBA |-> a.USE_NUMBA,
     calls |-> 1, lookups |-> 0, backend |-> <<>>]

\* truth of a delta_t in "delta_t or ...": None and 0 are false
Truthy(delta_t) == delta_t # DeltaTNone /\ delta_t # <<0>>

\* delta_t = delta_t or spa.calculate_deltat(...) (lines 299, 365, 862)
DeltaTOrLookup(delta_t) ==
    IF Truthy(delta_t) THEN [delta_t |-> delta_t, lookups |-> 0]
    ELSE [delta_t |-> CalculatedDeltaT, lookups |-> 1]

\* lines 355-358: sun_rise_set_transit_spa refuses an index without timezone
SunRiseSetSpa_NotLocalized ==
    /\ op = "sun_rise_set_transit_spa"
    /\ pc = "call"
    /\ args.tz = Naive
    /\ raised' = "ValueError"
    /\ pc' = "done"
    /\ UNCHANGED <<called, op, args, E, EccenAnom, passes, ext, ret>>

\* _spa_python_import up to the reload (lines 205-226)
SpaImport_Enter ==
    /\ op \in SpaOps
    /\ pc = "call"
    /\ ~(op = "sun_rise_set_transit_spa" /\ args.tz = Naive)
    /\ LET using_numba == ext.USE_NUMBA
       IN  IF args.how = "numpy" /\ using_numba
           THEN /\ ext' = [ext EXCEPT !.env = "0"]
                /\ pc' = "reload"
                /\ raised' = raised
           ELSE IF args.how = "numba" /\ ~using_numba
           THEN /\ ext' = [ext EXCEPT !.env = "1"]
                /\ pc' = "reload"
                /\ raised' = raised
           ELSE IF args.how # "numba" /\ args.how # "numpy"
           THEN /\ ext' = ext
                /\ pc' = "done"
                /\ raised' = "ValueError"
           ELSE /\ ext' = ext
                /\ pc' = "imported"
                /\ raised' = raised
    /\ UNCHANGED <<called, op, args, E, EccenAnom, passes, ret>>

\* spa = reload(spa); del os.environ['PVLIB_USE_NUMBA'] (lines 216-217 and
\* 223-224).  The reloaded module compiles with numba when the variable is
\* '1' and numba can be imported.
SpaImport_Reloaded ==
    /\ op \in SpaOps
    /\ pc = "reload"
    /\ \E compiled \in (IF ext.env = "1" THEN BOOLEAN ELSE {FALSE}) :
          ext' = [ext EXCEPT !.USE_NUMBA = compiled, !.env = Absent]
    /\ pc' = "imported"
    /\ UNCHANGED <<called, op, args, E, EccenAnom, passes, ret, raised>>

\* reload(spa) raises (lines 216 and 223): the del after it is not reached.
\* What the interrupted reload leaves in spa.USE_NUMBA is either value.
SpaImport_ReloadRaises ==
    /\ op \in SpaOps
    /\ pc = "reload"
    /\ \E left \in BOOLEAN : ext' = [ext EXCEPT !.USE_NUMBA = left]
    /\ raised' = "ImportError"
    /\ pc' = "done"
    /\ UNCHANGED <<called, op, args, E, EccenAnom, passes, ret>>

\* return spa (line 228), of a call of _spa_python_import itself
SpaImport_Return ==
    /\ op = "_spa_python_import"
    /\ pc = "imported"
    /\ ret' = "spa"
    /\ pc' = "done"
    /\ UNCHANGED <<called, op, args, E, EccenAnom, passes, ext, raised>>

\* the next call of _spa_python_import in the same process
SpaImport_CallAgain ==
    /\ op = "_spa_python_import"
    /\ pc = "done"
    /\ ext.calls < MaxCalls
    /\ \E how \in HowSamples : args' = [args EXCEPT !.how = how]
    /\ ext' = [ext EXCEPT !.before = ext.env, !.calls = ext.calls + 1]
    /\ ret' = None
    /\ raised' = None
    /\ pc' = "call"
    /\ UNCHANGED <<called, op, E, EccenAnom, passes>>

\* lines 299-309, 365-379 and 862-868: delta_t, then the one call of the
\* backend (spa.solar_position, spa.transit_sunrise_sunset or
\* spa.earthsun_distance); ret is the delta_t the result was computed with
Spa_Backend ==
    /\ op \in SpaCallers
    /\ pc = "imported"
    /\ LET d == DeltaTOrLookup(args.delta_t)
       IN  /\ ext' = [ext EXCEPT !.lookups = ext.lookups + d.lookups,
                                  !.backend = Append(ext.backend, d.delta_t)]
           /\ ret' = d.delta_t
    /\ pc' = "done"
    /\ UNCHANGED <<called, op, args, E, EccenAnom, passes, raised>>

----------------------------------------------------------------------------
\* get_solarposition (lines 77-103)

\* A method string is given by its lower-case form and the positions of the
\* letters it has in upper case; str.lower() puts every letter in lower case.
Method(lower, upper) == [lower |-> lower, upper |-> upper]

\* method.lower() without the conversion
Lower_AsGiven(m) == m

\* method.lower() (line 77)
Lower(m) == [m EXCEPT !.upper = {}]

\* the string literal s of the source, all in lower case
Literal(s) == Method(s, {})

MethodSamples ==
    { Method("nrel_c", {}), Method("nrel_c", {1, 2, 3, 4, 6}),
      Method("nrel_numba", {}), Method("nrel_numba", {1}),
      Method("nrel_numpy", {}), Method("nrel_numpy", {6}),
      Method("pyephem", {}), Method("pyephem", {1, 3}),
      Method("ephemeris", {}), Method("ephemeris", {1, 2, 3, 4, 5, 6, 7, 8, 9}),
      Method("nrel", {}), Method("spa", {1, 2, 3}), Method("", {}),
      Method("ephemeris ", {}) }

\* the backend the chain of lines 81-101 calls for the lowered method, with
\* the how it gives spa_python; no backend for any other string
Branch(m) ==
    IF m = Literal("nrel_c") THEN [backend |-> "spa_c", how |-> None]
    ELSE IF m = Literal("nrel_numba") THEN [backend |-> "spa_python", how |-> "numba"]
    ELSE IF m = Literal("nrel_numpy") THEN [backend |-> "spa_python", how |-> "numpy"]
    ELSE IF m = Literal("pyephem") THEN [backend |-> "pyephem", how |-> None]
    ELSE IF m = Literal("ephemeris") THEN [backend |-> "ephemeris", how |-> None]
    ELSE [backend |-> None, how |-> None]

\* the arguments the wrapper hands on to a backend
PassedArgs(backend, how) ==
    CASE backend = "spa_c" -> [n : {1}, raw_spa_output : {FALSE}]
      [] backend = "spa_python" ->
            [how : {how}, delta_t : {<<67>>}, tz : {"UTC"},
             env : EnvValues, USE_NUMBA : BOOLEAN]
      [] backend = "pyephem" -> [n : {1}]
      [] backend = "ephemeris" ->
            [time : [1..1 -> {EphemNaT, EphemTime(1, 45 * DegUnit,
                        Sky(360 * DegUnit - 1, -180 * DegUnit, 180 * DegUnit, 45 * DegUnit))}],
             pressure : {101325}, temperature : {12}]
      [] OTHER -> {None}

\* method, and what is handed on to the backend the method selects
GetSolarPositionArgs ==
    UNION { [method : {m}, passed : PassedArgs(Branch(Lower(m)).backend, Branch(Lower(m)).how)] :
              m \in MethodSamples }

\* lines 77-101: the call of the backend, which then runs as a call of its
\* own and whose result the wrapper returns as it is (line 103), or the
\* ValueError of line 101
GetSolarPosition_Dispatch ==
    /\ op = "get_solarposition"
    /\ pc = "call"
    /\ LET b == Branch(Lower(args.method))
       IN  IF b.backend # None
           THEN /\ op' = b.backend
                /\ args' = args.passed
                /\ called' = Append(called, [method |-> args.method, backend |-> b.backend,
                                             how |-> b.how])
                /\ ext' = IF b.backend = "spa_python" THEN SpaWorld(args.passed) ELSE ext
                /\ UNCHANGED <<pc, raised>>
           ELSE /\ raised' = "ValueError"
                /\ pc' = "done"
                /\ UNCHANGED <<op, args, called, ext>>
    /\ UNCHANGED <<E, EccenAnom, passes, ret>>

----------------------------------------------------------------------------
\* The specification: one call of one function

Init ==
    /\ \/ op = "ephemeris" /\ args \in EphemerisArgs
       \/ op = "kepler" /\ args \in KeplerArgs
       \/ op = "pyephem" /\ args \in PyephemArgs
       \/ op = "spa_c" /\ args \in SpaCArgs
       \/ op = "hour_angle" /\ args \in HourAngleArgs
       \/ op = "_hour_angle_to_hours" /\ args \in HourAngleToHoursArgs
       \/ op = "_local_times_from_hours_since_midnight" /\ args \in LocalTimesArgs
       \/ op = "sun_rise_set_transit_geometric" /\ args \in GeometricArgs
       \/ op = "solar_azimuth_analytical" /\ args \in AzimuthArgs
       \/ op = "calc_time" /\ args \in CalcTimeArgs
       \/ op \in SpaCallers /\ args \in SpaArgs
       \/ op = "_spa_python_import" /\ args \in ImportArgs
       \/ op = "get_solarposition" /\ args \in GetSolarPositionArgs
    /\ pc = "call"
    /\ E = <<>>
    /\ EccenAnom = <<>>
    /\ passes = 0
    /\ ext = IF op \in SpaOps THEN SpaWorld(args) ELSE None
    /\ ret = None
    /\ raised = None
    /\ called = <<>>

Next ==
    \/ Ephemeris_Start
    \/ Ephemeris_LoopBody
    \/ Ephemeris_LoopExit
    \/ Ephemeris_Return
    \/ Pyephem_Call
    \/ SpaC_Call
    \/ HourAngle_Call
    \/ HourAngleToHours_Call
    \/ LocalTimes_Call
    \/ Geometric_Call
    \/ Azimuth_Call
    \/ CalcTime_Call
    \/ SunRiseSetSpa_NotLocalized
    \/ SpaImport_Enter
    \/ SpaImport_Reloaded
    \/ SpaImport_ReloadRaises
    \/ SpaImport_Return
    \/ SpaImport_CallAgain
    \/ Spa_Backend
    \/ GetSolarPosition_Dispatch

Spec == Init /\ [][Next]_vars

----------------------------------------------------------------------------
\* Properties

Done == pc = "done"

Returned == pc = "done" /\ raised = None

\* the calls that return rows of the common schema
RowsReturned ==
    /\ Returned
    /\ \/ op \in {"ephemeris", "pyephem"}
       \/ op = "spa_c" /\ ~args.raw_spa_output

FiniteRow(r) ==
    /\ ~IsNaN(r.elevation) /\ ~IsNaN(r.apparent_elevation)
    /\ ~IsNaN(r.zenith) /\ ~IsNaN(r.apparent_zenith)

\* C1 as stated: every row returned by ephemeris, pyephem and spa_c (with
\* raw_spa_output=False) has zenith + elevation = 90 and apparent_zenith +
\* apparent_elevation = 90, whatever the backend returned for its fields.
C1_ComplementaryAsStated ==
    RowsReturned =>
        \A i \in 1..Len(ret) :
            FiniteRow(ret[i]) =>
                /\ ret[i].zenith + ret[i].elevation = 90 * DegUnit
                /\ ret[i].apparent_zenith + ret[i].apparent_elevation = 90 * DegUnit

\* C1 amended: every row without NaN has zenith + elevation = 90; a row of
\* ephemeris or pyephem has apparent_zenith + apparent_elevation = 90 too; a
\* row of spa_c carries the backend's zenith and e as apparent_zenith and
\* apparent_elevation, so their sum is 90 only if the backend's is.
C1_Complementary ==
    RowsReturned =>
        \A i \in 1..Len(ret) :
            FiniteRow(ret[i]) =>
                /\ ret[i].zenith + ret[i].elevation = 90 * DegUnit
                /\ IF op = "spa_c"
                   THEN /\ ret[i].apparent_zenith = ext[i].zenith
                        /\ ret[i].apparent_elevation = ext[i].e
                   ELSE ret[i].apparent_zenith + ret[i].apparent_elevation = 90 * DegUnit

\* C1 witness: spa_c returned a row whose apparent pair does not sum to 90
C1_Witness ==
    /\ RowsReturned
    /\ op = "spa_c"
    /\ \E i \in 1..Len(ret) :
          /\ ret[i].zenith + ret[i].elevation = 90 * DegUnit
          /\ ret[i].apparent_zenith + ret[i].apparent_elevation # 90 * DegUnit

\* C2 as stated: for timezone-aware times, converting the hour angle that
\* hour_angle returned back with _hour_angle_to_hours gives the wall-clock
\* hours since local midnight, also on a day on which the zone's offset changes.
C2_RoundTrip ==
    (op = "hour_angle" /\ Returned /\ args.times.tz \in AwareZones) =>
        \A i \in 1..Len(ret) :
            hour_angle_to_hours(args.times.tz, args.times.ticks[i], ret[i],
                                args.longitude, args.equation_of_time)
                = times_to_hours_after_local_midnight(args.times.tz, args.times.ticks[i])

\* C3 as stated: hour_angle gives the same value for the same UTC instant in
\* any two timezones (here any two of fixed offset), also when the two put the
\* instant on different local dates.
C3_ZoneIndependent ==
    (op = "hour_angle" /\ Returned /\ args.times.tz \in FixedZones) =>
        \A z \in FixedZones : \A i \in 1..Len(ret) :
            hour_angle(z, args.times.ticks[i], args.longitude, args.equation_of_time)
                = ret[i]

\* the eccentric-anomaly loop of ephemeris has been left
LoopLeft == op = "ephemeris" /\ pc \in {"sky", "done"}

\* C4 as stated: the eccentric-anomaly loop runs its body at most 100 times,
\* and once it is left either the batch has converged (the largest change of
\* the last pass is within the tolerance) or the call failed with a
\* ConvergenceError; an unconverged result is never returned.
C4_ConvergesOrFails ==
    /\ passes <= 100
    /\ LoopLeft =>
          \/ FLe(NpMax(AnomChange(EccenAnom, E)), Tol)
          \/ raised = "ConvergenceError"

\* C5 as stated: when the loop is left, every element of the batch (also one
\* batched together with a NaN element) has |EccenAnom - E| <= 0.0001.
C5_EveryElementConverged ==
    LoopLeft =>
        \A i \in 1..Len(EccenAnom) :
            ~IsNaN(EccenAnom[i]) => Abs(EccenAnom[i] - E[i]) <= Tol


\* C6: in the loop E = M + e*sin(E) started at E0 = M, an element with e = 0
\* leaves the loop with its eccentric anomaly equal to its mean anomaly, and
\* for eccentricities in [0, 0.02) and mean anomalies in [0, 360) the loop
\* body runs fewer than 10 times.
C6_KeplerBounded ==
    op \in {"kepler", "ephemeris"} =>
        /\ passes < 10
        /\ (op = "kepler" /\ Done) =>
              \A i \in 1..Len(ret) : args.Eccen[i] = 0 => ret[i] = args.MeanAnom[i]

\* C6 witness: the loop ran its body several times on a batch that holds a
\* circular orbit and an eccentric one, and returned
C6_Witness ==
    /\ op = "kepler" /\ Done
    /\ passes >= 4
    /\ \E i \in 1..Len(ret) : args.Eccen[i] = 0 /\ ret[i] = args.MeanAnom[i]
    /\ \E i \in 1..Len(ret) : args.Eccen[i] > 0 /\ ret[i] # args.MeanAnom[i]

\* the three time/angle converters
Converters ==
    {"hour_angle", "_hour_angle_to_hours", "_local_times_from_hours_since_midnight"}

\* C7 as stated: a call of one of the three converters with naive times ends
\* with an error and returns nothing.
C7_NaiveRejected ==
    (op \in Converters /\ Done /\ args.times.tz = Naive) =>
        raised # None /\ ret = None

\* polar day or night: -tan(declination) * tan(latitude) is outside [-1, 1]
Polar ==
    LET c == SunsetCos(args.declination, args.latitude)
    IN  c > TrigScale \/ c < -TrigScale

\* C8 as stated: in polar day or night sun_rise_set_transit_geometric does not
\* raise and every sunrise and sunset it returns is NaT.
C8_PolarNaT ==
    (op = "sun_rise_set_transit_geometric" /\ Done /\ Polar) =>
        /\ raised = None
        /\ \A i \in 1..Len(args.times.ticks) :
              ret.sunrise.ticks[i] = NaT /\ ret.sunset.ticks[i] = NaT

\* the denominator of cos_azi is within 1e-8 of zero
AziDenomZero == IsClose(AziDenom(args.latitude, args.zenith), 0)

\* the ratio numer / denom is within 1e-8 of [-1, 1]
AziRatioInRange ==
    Abs(AziNumer(args.latitude, args.declination, args.zenith))
        <= Abs(AziDenom(args.latitude, args.zenith))

\* C9 as stated: solar_azimuth_analytical returns a value in [0, 2*pi) when
\* the ratio is within 1e-8 of [-1, 1], for every sign of the hour angle, and
\* with a denominator within 1e-8 of zero it takes cos_azi = 1.0 and returns.
C9_HalfOpenRange ==
    (op = "solar_azimuth_analytical" /\ Done) =>
        /\ raised = None
        /\ AziDenomZero => ret = Pi
        /\ (AziDenomZero \/ AziRatioInRange) => (~IsNaN(ret) /\ 0 <= ret /\ ret < 2 * Pi)

\* C9 amended: the range is the closed [0, 2*pi]; 2*pi is returned for a
\* positive hour angle with cos_azi = -1.
C9_ClosedRange ==
    (op = "solar_azimuth_analytical" /\ Done) =>
        /\ raised = None
        /\ AziDenomZero => ret = Pi
        /\ (AziDenomZero \/ AziRatioInRange) => (~IsNaN(ret) /\ 0 <= ret /\ ret <= 2 * Pi)

\* C9 witness: a positive hour angle with cos_azi = -1, and 2*pi returned
C9_Witness ==
    /\ op = "solar_azimuth_analytical" /\ Done
    /\ args.hourangle > 0
    /\ ~AziDenomZero
    /\ CosAzi(args.latitude, args.declination, args.zenith) = -TrigScale
    /\ ret = 2 * Pi

\* attribute - value at the two bounds of calc_time, as evaluated in the call
FLower == compute_attr(ext, datetime_to_djd(args.lower_bound), args.value)

FUpper == compute_attr(ext, datetime_to_djd(args.upper_bound), args.value)

\* C10 as stated: calc_time returns an instant only when attribute - value
\* has opposite signs at the two bounds, and with the same sign at both it
\* fails with a ValueError.
C10_OppositeSigns ==
    (op = "calc_time" /\ Done /\ args.attribute \in SunAttributes) =>
        /\ raised = None => Sign(FLower) * Sign(FUpper) = -1
        /\ Sign(FLower) * Sign(FUpper) = 1 => raised = "ValueError"

\* C10 amended: calc_time returns an instant only when attribute - value does
\* not have the same sign at the two bounds (opposite signs, or zero at a
\* bound, which is then the instant returned); with the same sign at both it
\* fails with a ValueError.
C10_NotSameSign ==
    (op = "calc_time" /\ Done /\ args.attribute \in SunAttributes) =>
        /\ raised = None => Sign(FLower) * Sign(FUpper) # 1
        /\ (raised = None /\ FLower = 0) => ret = args.lower_bound
        /\ (raised = None /\ FLower # 0 /\ FUpper = 0) => ret = args.upper_bound
        /\ Sign(FLower) * Sign(FUpper) = 1 => raised = "ValueError"

\* C10 witness: attribute - value is zero at the lower bound and not at the
\* upper one, and the lower bound is returned
C10_Witness ==
    /\ op = "calc_time" /\ Returned
    /\ FLower = 0 /\ FUpper # 0
    /\ ret = args.lower_bound


\* ephemeris returned its rows
EphemerisDone == op = "ephemeris" /\ Done /\ raised = None

\* the refraction term of a returned row, apparent_elevation - elevation
RowRefract(r) == r.apparent_elevation - r.elevation

\* the branches of the refraction term as intervals of the elevation
InRational(el) == 5 * DegUnit < el /\ el <= 85 * DegUnit

InQuartic(el) == -57500 < el /\ el <= 5 * DegUnit

InHorizon(el) == -1 * DegUnit < el /\ el <= -57500

\* C11: in every row ephemeris returns, the refraction term is chosen by the
\* elevation: (5, 85] the rational function of tan(elevation), (-0.575, 5]
\* the quartic polynomial, (-1, -0.575] -20.774/tan(elevation), each scaled
\* by pressure and temperature; no elevation is in two of the intervals; and
\* for an elevation <= -1 or > 85 apparent_elevation equals elevation.
C11_RefractionBranches ==
    EphemerisDone =>
        \A i \in 1..Len(ret) :
            LET el == ret[i].elevation
                sc(x) == RefractScaled(x, args.pressure, args.temperature)
            IN  ~IsNaN(el) =>
                  /\ ~(InRational(el) /\ InQuartic(el))
                  /\ ~(InQuartic(el) /\ InHorizon(el))
                  /\ ~(InRational(el) /\ InHorizon(el))
                  /\ InRational(el) => RowRefract(ret[i]) = sc(RefractHigh(el))
                  /\ InQuartic(el) => RowRefract(ret[i]) = sc(RefractLow(el))
                  /\ InHorizon(el) => RowRefract(ret[i]) = sc(RefractHorizon(el))
                  /\ (el <= -1 * DegUnit \/ el > 85 * DegUnit) =>
                        ret[i].apparent_elevation = el

\* C11 witness: at standard pressure, a batch with one elevation above 85
\* degrees, returned without refraction, and one at 85 degrees, refracted
C11_Witness ==
    /\ EphemerisDone
    /\ args.pressure = 101325
    /\ \E i \in 1..Len(ret) :
          ret[i].elevation = 86 * DegUnit /\ ret[i].apparent_elevation = 86 * DegUnit
    /\ \E i \in 1..Len(ret) :
          ret[i].elevation = 85 * DegUnit /\ ret[i].apparent_elevation > 85 * DegUnit


WholeTicks(hours) == TDiv(hours, SubTick)

HoursFinite == \A i \in 1..Len(args.hours) : ~IsNaN(args.hours[i])

\* the wall clock an entry is asked for: local midnight plus the whole ticks
AskedWall(i) ==
    FloorDay(WallOf(args.times.tz, args.times.ticks[i])) + WholeTicks(args.hours[i])

RowHrAngle(i) == HrAngleOf(args.time[i].sky.LocAST, args.time[i].sky.RtAscen)

\* C14: in every row ephemeris returns for a local apparent sidereal time in
\* [0, 360) and a right ascension in [-180, 180], the reduced hour angle is
\* in [-180, 180] and solar_time = (180 + hour angle) / 15 is in [0, 24].
C14_HourAngleReduced ==
    EphemerisDone =>
        \A i \in 1..Len(ret) :
            LET sky == args.time[i].sky
            IN  (/\ ~IsNaN(sky.LocAST) /\ ~IsNaN(sky.RtAscen)
                 /\ 0 <= sky.LocAST /\ sky.LocAST < 360 * DegUnit
                 /\ -180 * DegUnit <= sky.RtAscen /\ sky.RtAscen <= 180 * DegUnit) =>
                    /\ -180 * DegUnit <= RowHrAngle(i) /\ RowHrAngle(i) <= 180 * DegUnit
                    /\ ret[i].solar_time = SolarTimeOf(RowHrAngle(i))
                    /\ 0 <= ret[i].solar_time /\ ret[i].solar_time <= 24 * DegUnit

\* C14 witness: a batch with one entry whose difference LocAST - RtAscen is
\* above 180 degrees and is reduced, and one whose hour angle is -180
\* degrees and whose solar_time is 0
C14_Witness ==
    /\ EphemerisDone
    /\ \E i \in 1..Len(ret) :
          /\ args.time[i].sky.LocAST - args.time[i].sky.RtAscen > 360 * DegUnit
          /\ RowHrAngle(i) > 179 * DegUnit
    /\ \E i \in 1..Len(ret) :
          /\ RowHrAngle(i) = -180 * DegUnit
          /\ ret[i].solar_time = 0


\* C15 as stated: a call of spa_python, sun_rise_set_transit_spa or the
\* earth-sun distance function that reaches the backend made the delta-T
\* lookup exactly when delta_t was None, and handed every delta_t that is a
\* number, 0 included, to the backend as it was given.
C15_LookupOnlyForNone ==
    (op \in SpaCallers /\ Done /\ raised = None) =>
        /\ (ext.lookups = 1) = (args.delta_t = DeltaTNone)
        /\ ext.lookups \in {0, 1}
        /\ Len(ext.backend) = 1
        /\ args.delta_t # DeltaTNone => ext.backend[1] = args.delta_t

\* C19 as stated: when a call of _spa_python_import is over, by return or
\* by exception, PVLIB_USE_NUMBA is in the environment with the value it had
\* before the call, or absent as it was before the call.
C19_EnvironmentRestored ==
    (op = "_spa_python_import" /\ Done) => ext.env = ext.before


\* the call came in through get_solarposition
ViaWrapper == op = "get_solarposition" \/ called # <<>>

\* the method string the wrapper was given
GivenMethod == IF op = "get_solarposition" THEN args.method ELSE called[1].method

\* the method names of the wrapper and the backend of each
MethodBackend ==
    [nrel_c |-> "spa_c", nrel_numba |-> "spa_python", nrel_numpy |-> "spa_python",
     pyephem |-> "pyephem", ephemeris |-> "ephemeris"]

\* the method string is, letter case aside, one of the five names
Supported == GivenMethod.lower \in DOMAIN MethodBackend

\* C16: get_solarposition calls exactly one backend, the one of the method,
\* when the method is, letter case aside, one of nrel_c, nrel_numba,
\* nrel_numpy, pyephem and ephemeris; for any other string it calls no
\* backend and ends with ValueError.
C16_OneBackendOrValueError ==
    ViaWrapper =>
        /\ Len(called) <= 1
        /\ called # <<>> =>
              /\ Supported
              /\ called[1].backend = MethodBackend[GivenMethod.lower]
              /\ op = called[1].backend
        /\ (Supported /\ Done) => Len(called) = 1
        /\ (~Supported /\ Done) => (called = <<>> /\ raised = "ValueError" /\ ret = None)
        /\ (~Supported /\ op = "get_solarposition") => called = <<>>

\* C16 witness: a method written with capital letters, its one backend
\* called with how = 'numba' and returned
C16_Witness ==
    /\ called # <<>> /\ Done /\ raised = None
    /\ GivenMethod = Method("nrel_numba", {1})
    /\ Len(called) = 1
    /\ called[1].backend = "spa_python" /\ called[1].how = "numba"
    /\ args.how = "numba"
    /\ Len(ext.backend) = 1


\* the eccentric-anomaly loop run on one element alone, from EccenAnom = EA
\* and E = Ev
RECURSIVE SolveAlone(_, _, _, _)
SolveAlone(M, e, EA, Ev) ==
    IF LoopCond(<<EA>>, <<Ev>>) THEN SolveAlone(M, e, KeplerStep(M, e, EA), EA)
    ELSE EA

\* the eccentric anomaly of one element when its timestamp is evaluated alone
Alone(M, e) == SolveAlone(M, e, M, 0)

\* C17 as stated: the eccentric anomaly with which the loop leaves an element
\* of a batch, from which alone the element's row is computed, is the one
\* the loop gives that element evaluated alone, so the row is the same.
C17_ElementIndependent ==
    (op \in {"ephemeris", "kepler"} /\ pc \in {"sky", "done"}) =>
        \A i \in 1..Len(EccenAnom) :
            EccenAnom[i] = Alone(MeanAnomArr[i], EccenArr[i])


\* C18 as stated: for an index with a timezone, a longitude in [-180, 180]
\* and any equation of time, every hour angle hour_angle returns is in
\* [-180, 180].
C18_HourAngleWrapped ==
    (/\ op = "hour_angle" /\ Done
     /\ args.times.tz \in AwareZones
     /\ -180 * HaPerDeg <= args.longitude /\ args.longitude <= 180 * HaPerDeg) =>
        \A i \in 1..Len(ret) :
            -180 * HaPerDeg <= ret[i] /\ ret[i] <= 180 * HaPerDeg


\* the sunset hour angle of the call is a number
SunsetDefined == ~IsNaN(SunsetAngle(args.declination, args.latitude))

\* C20 as stated: when the sunset hour angle is defined,
\* sun_rise_set_transit_geometric returns, for every timestamp, sunrise <=
\* transit <= sunset with transit - sunrise and sunset - transit at most one
\* tick apart.
C20_SymmetricAboutTransit ==
    (op = "sun_rise_set_transit_geometric" /\ Done /\ SunsetDefined) =>
        /\ raised = None
        /\ \A i \in 1..Len(args.times.ticks) :
              LET sunrise == ret.sunrise.ticks[i]
                  transit == ret.transit.ticks[i]
                  sunset  == ret.sunset.ticks[i]
              IN  /\ sunrise <= transit /\ transit <= sunset
                  /\ Abs((transit - sunrise) - (sunset - transit)) <= 1

====
